---- MODULE Spec2Model ----
(***************************************************************************)
(* Purchase-order lifecycle of PO/po_handler.py (class POHandler).         *)
(*                                                                         *)
(* The committed content of the tables PurchaseOrders and                  *)
(* PurchaseOrderItems is the pair <<orders, items>>.  Callers are          *)
(* processes; a handler method that issues several store operations is a   *)
(* sequence of steps (one per store operation), a method that issues one   *)
(* is a single step.  `with self.conn:` is a transaction: its writes sit   *)
(* in tx[p] until the block is left, then they are committed together or   *)
(* dropped.                                                                *)
(***************************************************************************)
EXTENDS Integers, Sequences, FiniteSets, TLC

VARIABLES
    orders,     \* PurchaseOrders, committed rows: poid -> row
    items,      \* PurchaseOrderItems, committed rows in poitemid order
    nextPoid,   \* the sequence behind purchaseorders.poid (RETURNING poid)
    tx,         \* per caller: the rows written inside an open `with self.conn`
    pc,         \* per caller: position inside the handler method being run
    loc,        \* per caller: the method's arguments and local variables
    ret,        \* per caller: the outcome of the last finished call
    clock,      \* the store's CURRENT_TIMESTAMP
    session     \* st.session_state of the buyer's browser session, and the
                \* position of the page run that is creating orders

vars == <<orders, items, nextPoid, tx, pc, loc, ret, clock, session>>

----------------------------------------------------------------------------
(* Bounds of the model *)

MaxPoid == 2            \* poid values drawn by one caller's calls

MaxConcPoid == 3        \* poid values drawn by two concurrent callers' calls

MaxClock == 1           \* CURRENT_TIMESTAMP ranges over 0..MaxClock

----------------------------------------------------------------------------
(* Values *)

NULL == -9              \* Python None / SQL NULL / pandas NaN

BAD == -8               \* an argument int() / pd.to_datetime() cannot convert

Procs == {1, 2}

Approvals == {"pending", "approved", "rejected"}

ArchivedStatuses ==
    {"Completed", "Declined", "Declined by AMAS", "Declined by Supplier"}

SupplierTable == {1, 2}

ItemTable == {1, 2}

ABSENT == "<absent>"    \* "item_approval" is no key of the item dict

OMIT == -7              \* "estimated_price" is no key of the item dict

----------------------------------------------------------------------------
(* Pure helpers *)

\* int(x): raises for a non-numeric argument and for None
IntOk(x) == x \notin {BAD, NULL}

\* lines 127-130 of create_manual_po: which argument triples convert
CoerceOk(supplier_id, expected_delivery, original_poid) ==
    /\ supplier_id # BAD
    /\ expected_delivery # BAD
    /\ original_poid # BAD

\* `int(original_poid) if original_poid else None`: 0 is falsy as None is
CoerceOriginal(original_poid) ==
    IF original_poid = NULL \/ original_poid = 0 THEN NULL ELSE original_poid

\* item.get("item_approval", "pending")
ItemApprovalOf(item) ==
    IF item.item_approval = ABSENT THEN "pending" ELSE item.item_approval

\* item.get("estimated_price")
EstimatedPriceOf(item) ==
    IF item.estimated_price = OMIT THEN NULL ELSE item.estimated_price

\* RowOf with item.get("estimated_price", 0): a missing price stored as 0
RowOf_price_defaulted(po_id, item) ==
    [ poid                |-> po_id,
      itemid              |-> item.item_id,
      orderedquantity     |-> item.quantity,
      estimatedprice      |-> IF item.estimated_price = OMIT
                                 THEN 0 ELSE item.estimated_price,
      receivedquantity    |-> 0,
      supproposedquantity |-> NULL,
      supproposedprice    |-> NULL,
      approval            |-> ItemApprovalOf(item) ]

\* one tuple of `rows` (lines 147-157)
RowOf(po_id, item) ==
    [ poid                |-> po_id,
      itemid              |-> item.item_id,
      orderedquantity     |-> item.quantity,
      estimatedprice      |-> EstimatedPriceOf(item),
      receivedquantity    |-> 0,
      supproposedquantity |-> NULL,
      supproposedprice    |-> NULL,
      approval            |-> ItemApprovalOf(item) ]

\* `rows`, the list the comprehension of lines 147-157 builds
RowsOf(po_id, its) == [i \in 1..Len(its) |-> RowOf(po_id, its[i])]

RowsOk(its) ==
    \A i \in DOMAIN its : IntOk(its[i].item_id) /\ IntOk(its[i].quantity)

\* the parent row of the INSERT of lines 135-143; the columns the statement
\* does not name take the table's defaults
OrderRowOf(supplier_id, expected_delivery, created_by, original_poid, approval) ==
    [ supplierid         |-> supplier_id,
      expecteddelivery   |-> expected_delivery,
      status             |-> "Pending",
      actualdelivery     |-> NULL,
      createdby          |-> created_by,
      supproposeddeliver |-> NULL,
      originalpoid       |-> original_poid,
      approval           |-> approval ]

\* lines 246-250: `or` takes the right operand when the left one is falsy
ResolveQty(row) ==
    IF row.supproposedquantity # NULL
        THEN row.supproposedquantity
        ELSE IF row.orderedquantity = NULL \/ row.orderedquantity = 0
                THEN 1
                ELSE row.orderedquantity

\* ResolvePrice with the supplier's price tested for truth instead of null
ResolvePrice_truthy(row) ==
    IF row.supproposedprice # NULL /\ row.supproposedprice # 0
        THEN row.supproposedprice
        ELSE IF row.estimatedprice = NULL \/ row.estimatedprice = 0
                THEN 0
                ELSE row.estimatedprice

\* lines 251-255
ResolvePrice(row) ==
    IF row.supproposedprice # NULL
        THEN row.supproposedprice
        ELSE IF row.estimatedprice = NULL \/ row.estimatedprice = 0
                THEN 0
                ELSE row.estimatedprice

\* lines 256-262: the dict appended to new_items for one source row
NewItemOf(row) ==
    [ item_id         |-> row.itemid,
      quantity        |-> ResolveQty(row),
      estimated_price |-> ResolvePrice(row),
      item_approval   |-> row.approval ]

\* new_items, the list the loop of lines 244-262 builds
NewItemsOf(rows) == [i \in 1..Len(rows) |-> NewItemOf(rows[i])]

\* the rows of an item table that belong to order poid
ItemsIn(its, poid) == SelectSeq(its, LAMBDA r : r.poid = poid)

\* SELECT * FROM PurchaseOrderItems WHERE POID = %s
ItemsOf(poid) == ItemsIn(items, poid)

\* the poids a listing returns: the order joins a supplier and at least one
\* item row that joins the item catalogue, and its status passes the filter
Joined(poid) ==
    /\ orders[poid].supplierid \in SupplierTable
    /\ \E i \in DOMAIN items :
          items[i].poid = poid /\ items[i].itemid \in ItemTable

get_all_purchase_orders ==
    { o \in DOMAIN orders :
        Joined(o) /\ orders[o].status \notin ArchivedStatuses }

get_archived_purchase_orders ==
    { o \in DOMAIN orders :
        Joined(o) /\ orders[o].status \in ArchivedStatuses }

----------------------------------------------------------------------------
(* Caller state *)

NoLoc ==
    [ op |-> "", proposed_po_id |-> NULL, supplier_id |-> NULL,
      expected_delivery |-> NULL, items |-> <<>>, created_by |-> "",
      original_poid |-> NULL, approval |-> "", po_id |-> NULL,
      rows |-> <<>>, po_info |-> <<>>, items_info |-> <<>>, pre |-> {} ]

NoTx == [po |-> <<>>, rows |-> <<>>]

NoRet ==
    [ op |-> "", id |-> NULL, item |-> NULL, val |-> "", num |-> NULL,
      out |-> "", poid |-> NULL, pre |-> {}, seq |-> 0 ]

\* what a call was given: the order id, the item id, the approval value and
\* the quantity it names (NULL or "" where it names none)
Args(id, item, val, num) == [id |-> id, item |-> item, val |-> val, num |-> num]

NoArgs == Args(NULL, NULL, "", NULL)

\* st.session_state as the pages initialise it (1_Fast_Check.py 225-233):
\* po_items, confirm_feedback and clear_after_confirm are its keys; `page`
\* is the page whose widgets the browser shows ("" when none is rendered),
\* `shown` the confirm message the last page run displayed, `event` the
\* widget the user last used; po_by_supplier and any_success are the locals
\* of the Confirm handler while its loop runs, `seen` the ret.seq it last
\* read, `outcomes` the outcome of each create_manual_po call of the loop
NoSession ==
    [ po_items |-> <<>>, confirm_feedback |-> "", clear_after_confirm |-> FALSE,
      page |-> "", shown |-> "",
      event |-> [page |-> "", widget |-> "", idx |-> 0, seq |-> 0],
      confirming |-> FALSE, po_by_supplier |-> <<>>,
      any_success |-> FALSE, seen |-> 0, outcomes |-> <<>> ]

\* the call of caller p ends: `out` is "ok" (normal return), "None" (the
\* not-found return), or the exception that leaves the method; `pre` keeps
\* the poids that existed when an accept or modify that drew a poid began
Return(p, op, a, out, poid) ==
    /\ ret' = [ret EXCEPT ![p] =
                 [op |-> op, id |-> a.id, item |-> a.item, val |-> a.val,
                  num |-> a.num, out |-> out, poid |-> poid,
                  pre |-> IF poid = NULL THEN {} ELSE loc[p].pre,
                  seq |-> 1 - ret[p].seq]]
    /\ pc' = [pc EXCEPT ![p] = "idle"]
    /\ loc' = [loc EXCEPT ![p] = NoLoc]

Init ==
    /\ orders = <<>>
    /\ items = <<>>
    /\ nextPoid = 1
    /\ tx = [p \in Procs |-> NoTx]
    /\ pc = [p \in Procs |-> "idle"]
    /\ loc = [p \in Procs |-> NoLoc]
    /\ ret = [p \in Procs |-> NoRet]
    /\ clock = 0
    /\ session = NoSession

----------------------------------------------------------------------------
(* The store *)

\* the row with the columns of `set` given their new values
Updated(row, set) ==
    [ c \in DOMAIN row |-> IF c \in DOMAIN set THEN set[c] ELSE row[c] ]

\* UPDATE PurchaseOrders SET ... WHERE POID = id: no row, no change
UpdateOrder(id, set) ==
    IF id \in DOMAIN orders
        THEN [orders EXCEPT ![id] = Updated(@, set)]
        ELSE orders

\* UPDATE PurchaseOrderItems SET ... WHERE POID = poid AND ItemID = item_id
UpdateItems(poid, item_id, set) ==
    [ i \in DOMAIN items |->
        IF items[i].poid = poid /\ items[i].itemid = item_id
            THEN Updated(items[i], set)
            ELSE items[i] ]

\* the poid of the order row written inside the open transaction of p
Written(p) == {tx[p].po[i].poid : i \in DOMAIN tx[p].po}

\* leaving `with self.conn:` normally: the rows written inside it are
\* committed together
Commit(p) ==
    /\ orders' = [ o \in DOMAIN orders \cup Written(p) |->
                     IF o \in Written(p) THEN tx[p].po[1].row ELSE orders[o] ]
    /\ items' = items \o tx[p].rows
    /\ tx' = [tx EXCEPT ![p] = NoTx]

\* the exception leaves the method with no rollback: the connection commits
\* what the statements before it wrote
RollbackMissing(p) ==
    /\ orders' = [ o \in DOMAIN orders \cup Written(p) |->
                     IF o \in Written(p) THEN tx[p].po[1].row ELSE orders[o] ]
    /\ items' = items \o tx[p].rows
    /\ tx' = [tx EXCEPT ![p] = NoTx]

\* leaving `with self.conn:` by an exception: the rows written inside it
\* are dropped
Rollback(p) ==
    /\ tx' = [tx EXCEPT ![p] = NoTx]
    /\ UNCHANGED <<orders, items>>

\* an exception leaves the method that caller p runs
Raise(p, exc) ==
    Return(p, loc[p].op, Args(loc[p].proposed_po_id, NULL, "", NULL), exc, NULL)

CanStart(p) == pc[p] = "idle"


\* the arguments of create_manual_po after lines 127-130, beside the locals
\* of the accept or modify that called it (po_info: the order row it read)
CreateArgs(op, src, supplier_id, expected_delivery, its, created_by, original_poid, approval, po_info, items_info, pre) ==
    [ op |-> op, proposed_po_id |-> src, supplier_id |-> supplier_id,
      expected_delivery |-> expected_delivery, items |-> its,
      created_by |-> created_by,
      original_poid |-> CoerceOriginal(original_poid),
      approval |-> approval, po_id |-> NULL, rows |-> <<>>,
      po_info |-> po_info, items_info |-> items_info, pre |-> pre ]

----------------------------------------------------------------------------
(* create_manual_po, lines 122-168 *)

\* a caller enters create_manual_po; lines 127-130 convert the arguments
create_manual_po(p, supplier_id, expected_delivery, its, created_by, approval) ==
    /\ CanStart(p)
    /\ IF CoerceOk(supplier_id, expected_delivery, NULL)
          THEN /\ loc' = [loc EXCEPT ![p] =
                            CreateArgs("create", NULL, supplier_id,
                                       expected_delivery, its, created_by,
                                       NULL, approval, <<>>, <<>>,
                                       DOMAIN orders)]
               /\ pc' = [pc EXCEPT ![p] = "cr_insert"]
               /\ UNCHANGED <<orders, items, nextPoid, tx, ret, clock, session>>
          ELSE /\ Return(p, "create", NoArgs, "ValueError", NULL)
               /\ UNCHANGED <<orders, items, nextPoid, tx, clock, session>>

\* lines 132-144: _ensure_live_conn, then INSERT INTO purchaseorders ...
\* RETURNING poid inside the transaction
create_insert_order(p, ok) ==
    /\ pc[p] = "cr_insert"
    /\ IF ok
          THEN /\ tx' = [tx EXCEPT ![p] =
                           [ po |-> << [ poid |-> nextPoid,
                                         row |-> OrderRowOf(loc[p].supplier_id,
                                                            loc[p].expected_delivery,
                                                            loc[p].created_by,
                                                            loc[p].original_poid,
                                                            loc[p].approval) ] >>,
                             rows |-> <<>> ]]
               /\ nextPoid' = nextPoid + 1
               /\ loc' = [loc EXCEPT ![p].po_id = nextPoid]
               /\ pc' = [pc EXCEPT ![p] = "cr_rows"]
               /\ UNCHANGED <<orders, items, ret, clock, session>>
          ELSE /\ Raise(p, "PersistenceError")
               /\ Rollback(p)
               /\ UNCHANGED <<nextPoid, clock, session>>

\* create_build_rows with original_poid, when it is given, in the place of
\* po_id in each tuple
create_build_rows_on_source(p) ==
    /\ pc[p] = "cr_rows"
    /\ IF RowsOk(loc[p].items)
          THEN /\ loc' = [loc EXCEPT ![p].rows =
                            RowsOf(IF loc[p].original_poid = NULL
                                      THEN loc[p].po_id
                                      ELSE loc[p].original_poid,
                                   loc[p].items)]
               /\ pc' = [pc EXCEPT ![p] = "cr_batch"]
               /\ UNCHANGED <<orders, items, nextPoid, tx, ret, clock, session>>
          ELSE /\ Raise(p, "ValueError")
               /\ Rollback(p)
               /\ UNCHANGED <<nextPoid, clock, session>>

\* lines 147-157: the list comprehension that builds `rows`
create_build_rows(p) ==
    /\ pc[p] = "cr_rows"
    /\ IF RowsOk(loc[p].items)
          THEN /\ loc' = [loc EXCEPT ![p].rows =
                            RowsOf(loc[p].po_id, loc[p].items)]
               /\ pc' = [pc EXCEPT ![p] = "cr_batch"]
               /\ UNCHANGED <<orders, items, nextPoid, tx, ret, clock, session>>
          ELSE /\ Raise(p, "ValueError")
               /\ Rollback(p)
               /\ UNCHANGED <<nextPoid, clock, session>>

\* lines 159-167: execute_values inserts the batch inside the transaction
create_insert_items(p, ok) ==
    /\ pc[p] = "cr_batch"
    /\ IF ok
          THEN /\ tx' = [tx EXCEPT ![p].rows = loc[p].rows]
               /\ pc' = [pc EXCEPT ![p] = "cr_commit"]
               /\ UNCHANGED <<orders, items, nextPoid, loc, ret, clock, session>>
          ELSE /\ Raise(p, "PersistenceError")
               /\ Rollback(p)
               /\ UNCHANGED <<nextPoid, clock, session>>

\* the end of `with self.conn:` and line 168, `return po_id`: to the page
\* that called create_manual_po, or back into accept / modify
create_commit(p, ok) ==
    /\ pc[p] = "cr_commit"
    /\ IF ok
          THEN /\ Commit(p)
               /\ IF loc[p].op = "create"
                     THEN Return(p, "create", NoArgs, "ok", loc[p].po_id)
                     ELSE /\ pc' = [pc EXCEPT ![p] =
                                      IF loc[p].op = "accept"
                                         THEN "acc_status" ELSE "mod_status"]
                          /\ UNCHANGED <<loc, ret>>
               /\ UNCHANGED <<nextPoid, clock, session>>
          ELSE /\ Raise(p, "PersistenceError")
               /\ Rollback(p)
               /\ UNCHANGED <<nextPoid, clock, session>>

----------------------------------------------------------------------------
(* accept_proposed_po, lines 218-280 *)

\* accept_proposed_po without the `if po_info_df.empty` return: the fields of
\* the missing row read as their .get() defaults
accept_without_empty_check(p, id, ok) ==
    /\ CanStart(p)
    /\ loc' = [loc EXCEPT ![p] =
                 [ NoLoc EXCEPT
                     !.op = "accept",
                     !.proposed_po_id = id,
                     !.created_by = "Unknown",
                     !.approval = "pending",
                     !.pre = DOMAIN orders ]]
    /\ pc' = [pc EXCEPT ![p] = "acc_items"]
    /\ UNCHANGED <<orders, items, nextPoid, tx, ret, clock, session>>

\* accept_proposed_po with the order's own expected delivery taken where the
\* supplier proposed no date
accept_keeps_delivery(p, id, ok) ==
    /\ CanStart(p)
    /\ IF ~ok
          THEN /\ Return(p, "accept", Args(id, NULL, "", NULL), "PersistenceError", NULL)
               /\ UNCHANGED <<orders, items, nextPoid, tx, clock, session>>
          ELSE IF id \notin DOMAIN orders
          THEN /\ Return(p, "accept", Args(id, NULL, "", NULL), "None", NULL)
               /\ UNCHANGED <<orders, items, nextPoid, tx, clock, session>>
          ELSE /\ loc' = [loc EXCEPT ![p] =
                            [ NoLoc EXCEPT
                                !.op = "accept",
                                !.proposed_po_id = id,
                                !.supplier_id = orders[id].supplierid,
                                !.expected_delivery =
                                    IF orders[id].supproposeddeliver # NULL
                                       THEN orders[id].supproposeddeliver
                                       ELSE orders[id].expecteddelivery,
                                !.created_by = orders[id].createdby,
                                !.approval = orders[id].approval,
                                !.po_info = orders[id],
                                !.pre = DOMAIN orders ]]
               /\ pc' = [pc EXCEPT ![p] = "acc_items"]
               /\ UNCHANGED <<orders, items, nextPoid, tx, ret, clock, session>>

\* lines 222-229: the SELECT of the order row; an empty result returns None
accept_proposed_po(p, id, ok) ==
    /\ CanStart(p)
    /\ IF ~ok
          THEN /\ Return(p, "accept", Args(id, NULL, "", NULL), "PersistenceError", NULL)
               /\ UNCHANGED <<orders, items, nextPoid, tx, clock, session>>
          ELSE IF id \notin DOMAIN orders
          THEN /\ Return(p, "accept", Args(id, NULL, "", NULL), "None", NULL)
               /\ UNCHANGED <<orders, items, nextPoid, tx, clock, session>>
          ELSE /\ loc' = [loc EXCEPT ![p] =
                            [ NoLoc EXCEPT
                                !.op = "accept",
                                !.proposed_po_id = id,
                                !.supplier_id = orders[id].supplierid,
                                !.expected_delivery = orders[id].supproposeddeliver,
                                !.created_by = orders[id].createdby,
                                !.approval = orders[id].approval,
                                !.po_info = orders[id],
                                !.pre = DOMAIN orders ]]
               /\ pc' = [pc EXCEPT ![p] = "acc_items"]
               /\ UNCHANGED <<orders, items, nextPoid, tx, ret, clock, session>>

\* lines 231-274: the SELECT of the item rows, the loop that resolves each
\* row into new_items, and the entry into create_manual_po (lines 127-130)
accept_read_items(p, ok) ==
    /\ pc[p] = "acc_items"
    /\ IF ok
          THEN /\ loc' = [loc EXCEPT ![p] =
                            CreateArgs("accept", loc[p].proposed_po_id,
                                       loc[p].supplier_id,
                                       loc[p].expected_delivery,
                                       NewItemsOf(ItemsOf(loc[p].proposed_po_id)),
                                       loc[p].created_by,
                                       loc[p].proposed_po_id,
                                       loc[p].approval,
                                       loc[p].po_info,
                                       ItemsOf(loc[p].proposed_po_id),
                                       loc[p].pre)]
               /\ pc' = [pc EXCEPT ![p] = "cr_insert"]
               /\ UNCHANGED <<orders, items, nextPoid, tx, ret, clock, session>>
          ELSE /\ Raise(p, "PersistenceError")
               /\ UNCHANGED <<orders, items, nextPoid, tx, clock, session>>

\* accept_set_status with `AND Status = 'Pending'` added to its UPDATE and a
\* None return when that matches no row
accept_set_status_if_pending(p, ok) ==
    /\ pc[p] = "acc_status"
    /\ IF orders[loc[p].proposed_po_id].status = "Pending"
          THEN /\ orders' = UpdateOrder(loc[p].proposed_po_id,
                                [status |-> "Accepted by AMAS"])
               /\ Return(p, "accept", Args(loc[p].proposed_po_id, NULL, "", NULL),
                         "ok", loc[p].po_id)
          ELSE /\ UNCHANGED orders
               /\ Return(p, "accept", Args(loc[p].proposed_po_id, NULL, "", NULL),
                         "None", NULL)
    /\ UNCHANGED <<items, nextPoid, tx, clock, session>>

\* accept_set_status with the UPDATE keyed by new_poid instead of
\* proposed_po_id
accept_set_status_of_clone(p, ok) ==
    /\ pc[p] = "acc_status"
    /\ orders' = UpdateOrder(loc[p].po_id,
                     [status |-> "Accepted by AMAS"])
    /\ Return(p, "accept", Args(loc[p].proposed_po_id, NULL, "", NULL),
              "ok", loc[p].po_id)
    /\ UNCHANGED <<items, nextPoid, tx, clock, session>>

\* lines 276-280: the UPDATE of the source row's status, then return new_poid
accept_set_status(p, ok) ==
    /\ pc[p] = "acc_status"
    /\ IF ok
          THEN /\ orders' = UpdateOrder(loc[p].proposed_po_id,
                                [status |-> "Accepted by AMAS"])
               /\ Return(p, "accept", Args(loc[p].proposed_po_id, NULL, "", NULL),
                         "ok", loc[p].po_id)
               /\ UNCHANGED <<items, nextPoid, tx, clock, session>>
          ELSE /\ Raise(p, "PersistenceError")
               /\ UNCHANGED <<orders, items, nextPoid, tx, clock, session>>

----------------------------------------------------------------------------
(* modify_proposed_po, lines 290-318 *)

\* modify_proposed_po with the item list built as accept builds it, from the
\* source's item rows
modify_resolves_source(p, id, new_delivery_date, new_items, user_email, ok) ==
    /\ CanStart(p)
    /\ IF ~ok
          THEN /\ Return(p, "modify", Args(id, NULL, "", NULL), "PersistenceError", NULL)
               /\ UNCHANGED <<orders, items, nextPoid, tx, clock, session>>
          ELSE IF id \notin DOMAIN orders
          THEN /\ Return(p, "modify", Args(id, NULL, "", NULL), "None", NULL)
               /\ UNCHANGED <<orders, items, nextPoid, tx, clock, session>>
          ELSE IF ~CoerceOk(orders[id].supplierid, new_delivery_date, id)
          THEN /\ Return(p, "modify", Args(id, NULL, "", NULL), "ValueError", NULL)
               /\ UNCHANGED <<orders, items, nextPoid, tx, clock, session>>
          ELSE /\ loc' = [loc EXCEPT ![p] =
                            CreateArgs("modify", id, orders[id].supplierid,
                                       new_delivery_date,
                                       NewItemsOf(ItemsOf(id)), user_email,
                                       id, orders[id].approval, orders[id],
                                       <<>>, DOMAIN orders)]
               /\ pc' = [pc EXCEPT ![p] = "cr_insert"]
               /\ UNCHANGED <<orders, items, nextPoid, tx, ret, clock, session>>

\* modify_proposed_po without `approval=po_approval` in its call of
\* create_manual_po, whose default is 'pending'
modify_resets_approval(p, id, new_delivery_date, new_items, user_email, ok) ==
    /\ CanStart(p)
    /\ IF ~ok
          THEN /\ Return(p, "modify", Args(id, NULL, "", NULL), "PersistenceError", NULL)
               /\ UNCHANGED <<orders, items, nextPoid, tx, clock, session>>
          ELSE IF id \notin DOMAIN orders
          THEN /\ Return(p, "modify", Args(id, NULL, "", NULL), "None", NULL)
               /\ UNCHANGED <<orders, items, nextPoid, tx, clock, session>>
          ELSE IF ~CoerceOk(orders[id].supplierid, new_delivery_date, id)
          THEN /\ Return(p, "modify", Args(id, NULL, "", NULL), "ValueError", NULL)
               /\ UNCHANGED <<orders, items, nextPoid, tx, clock, session>>
          ELSE /\ loc' = [loc EXCEPT ![p] =
                            CreateArgs("modify", id, orders[id].supplierid,
                                       new_delivery_date, new_items, user_email,
                                       id, "pending", orders[id],
                                       <<>>, DOMAIN orders)]
               /\ pc' = [pc EXCEPT ![p] = "cr_insert"]
               /\ UNCHANGED <<orders, items, nextPoid, tx, ret, clock, session>>

\* lines 294-312: the SELECT of the order row (None when empty), then the
\* entry into create_manual_po with the caller's date and items
modify_proposed_po(p, id, new_delivery_date, new_items, user_email, ok) ==
    /\ CanStart(p)
    /\ IF ~ok
          THEN /\ Return(p, "modify", Args(id, NULL, "", NULL), "PersistenceError", NULL)
               /\ UNCHANGED <<orders, items, nextPoid, tx, clock, session>>
          ELSE IF id \notin DOMAIN orders
          THEN /\ Return(p, "modify", Args(id, NULL, "", NULL), "None", NULL)
               /\ UNCHANGED <<orders, items, nextPoid, tx, clock, session>>
          ELSE IF ~CoerceOk(orders[id].supplierid, new_delivery_date, id)
          THEN /\ Return(p, "modify", Args(id, NULL, "", NULL), "ValueError", NULL)
               /\ UNCHANGED <<orders, items, nextPoid, tx, clock, session>>
          ELSE /\ loc' = [loc EXCEPT ![p] =
                            CreateArgs("modify", id, orders[id].supplierid,
                                       new_delivery_date, new_items, user_email,
                                       id, orders[id].approval, orders[id],
                                       <<>>, DOMAIN orders)]
               /\ pc' = [pc EXCEPT ![p] = "cr_insert"]
               /\ UNCHANGED <<orders, items, nextPoid, tx, ret, clock, session>>

\* modify_set_status without its UPDATE
modify_without_status(p, ok) ==
    /\ pc[p] = "mod_status"
    /\ Return(p, "modify", Args(loc[p].proposed_po_id, NULL, "", NULL),
              "ok", loc[p].po_id)
    /\ UNCHANGED <<orders, items, nextPoid, tx, clock, session>>

\* lines 314-318: the UPDATE of the source row's status, then return new_poid
modify_set_status(p, ok) ==
    /\ pc[p] = "mod_status"
    /\ IF ok
          THEN /\ orders' = UpdateOrder(loc[p].proposed_po_id,
                                [status |-> "Modified by AMAS"])
               /\ Return(p, "modify", Args(loc[p].proposed_po_id, NULL, "", NULL),
                         "ok", loc[p].po_id)
               /\ UNCHANGED <<items, nextPoid, tx, clock, session>>
          ELSE /\ Raise(p, "PersistenceError")
               /\ UNCHANGED <<orders, items, nextPoid, tx, clock, session>>

----------------------------------------------------------------------------
(* The single-statement methods *)

\* one UPDATE issued through execute_command by caller p, who is given
\* `newOrders` and `newItems` as the tables after it
Execute(p, op, a, ok, newOrders, newItems) ==
    /\ IF ok
          THEN /\ orders' = newOrders
               /\ items' = newItems
               /\ Return(p, op, a, "ok", NULL)
          ELSE /\ UNCHANGED <<orders, items>>
               /\ Return(p, op, a, "PersistenceError", NULL)
    /\ UNCHANGED <<nextPoid, tx, clock, session>>

\* a method fails before it reaches execute_command
Fail(p, op, a, exc) ==
    /\ Return(p, op, a, exc, NULL)
    /\ UNCHANGED <<orders, items, nextPoid, tx, clock, session>>

\* decline_proposed_po with the SET clause of update_po_status_to_received's
\* statement kept beside its own
decline_stamps_delivery(p, id, ok) ==
    /\ CanStart(p)
    /\ IF ~IntOk(id)
          THEN Fail(p, "decline", Args(id, NULL, "", NULL), "ValueError")
          ELSE Execute(p, "decline", Args(id, NULL, "", NULL), ok,
                       UpdateOrder(id, [status |-> "Declined by AMAS", actualdelivery |-> clock]),
                       items)

\* decline_proposed_po, lines 282-288
decline_proposed_po(p, id, ok) ==
    /\ CanStart(p)
    /\ IF ~IntOk(id)
          THEN Fail(p, "decline", Args(id, NULL, "", NULL), "ValueError")
          ELSE Execute(p, "decline", Args(id, NULL, "", NULL), ok,
                       UpdateOrder(id, [status |-> "Declined by AMAS"]),
                       items)

\* update_po_status_to_received without `ActualDelivery = CURRENT_TIMESTAMP`
\* in its SET clause
received_without_timestamp(p, poid, ok) ==
    /\ CanStart(p)
    /\ IF ~IntOk(poid)
          THEN Fail(p, "received", Args(poid, NULL, "", NULL), "ValueError")
          ELSE Execute(p, "received", Args(poid, NULL, "", NULL), ok,
                       UpdateOrder(poid, [status |-> "Received"]),
                       items)

\* update_po_status_to_received, lines 170-178
update_po_status_to_received(p, poid, ok) ==
    /\ CanStart(p)
    /\ IF ~IntOk(poid)
          THEN Fail(p, "received", Args(poid, NULL, "", NULL), "ValueError")
          ELSE Execute(p, "received", Args(poid, NULL, "", NULL), ok,
                       UpdateOrder(poid, [status |-> "Received", actualdelivery |-> clock]),
                       items)

\* update_received_quantity, lines 180-190
update_received_quantity(p, poid, item_id, received_quantity, ok) ==
    /\ CanStart(p)
    /\ IF ~IntOk(poid) \/ ~IntOk(item_id) \/ ~IntOk(received_quantity)
          THEN Fail(p, "quantity", Args(poid, item_id, "", received_quantity), "ValueError")
          ELSE Execute(p, "quantity", Args(poid, item_id, "", received_quantity), ok,
                       orders,
                       UpdateItems(poid, item_id,
                                   [receivedquantity |-> received_quantity]))

\* update_po_approval with the assert moved below execute_command
update_po_approval_asserts_late(p, poid, approval, ok) ==
    /\ CanStart(p)
    /\ IF ~IntOk(poid)
          THEN Fail(p, "po_approval", Args(poid, NULL, approval, NULL), "ValueError")
          ELSE /\ IF ok
                     THEN /\ orders' = UpdateOrder(poid, [approval |-> approval])
                          /\ Return(p, "po_approval", Args(poid, NULL, approval, NULL),
                                    IF approval \in Approvals THEN "ok" ELSE "AssertionError",
                                    NULL)
                     ELSE /\ UNCHANGED orders
                          /\ Return(p, "po_approval", Args(poid, NULL, approval, NULL),
                                    "PersistenceError", NULL)
               /\ UNCHANGED <<items, nextPoid, tx, clock, session>>

\* update_po_approval with `AND approval = 'pending'` added to its WHERE
\* clause: an approval once decided is kept
update_po_approval_once(p, poid, approval, ok) ==
    /\ CanStart(p)
    /\ IF ~IntOk(poid)
          THEN Fail(p, "po_approval", Args(poid, NULL, approval, NULL), "ValueError")
          ELSE IF approval \notin Approvals
          THEN Fail(p, "po_approval", Args(poid, NULL, approval, NULL), "AssertionError")
          ELSE Execute(p, "po_approval", Args(poid, NULL, approval, NULL), ok,
                       IF poid \in DOMAIN orders /\ orders[poid].approval = "pending"
                          THEN UpdateOrder(poid, [approval |-> approval])
                          ELSE orders,
                       items)

\* update_po_approval followed by the same SET on the order's item rows
update_po_approval_cascades(p, poid, approval, ok) ==
    /\ CanStart(p)
    /\ IF ~IntOk(poid)
          THEN Fail(p, "po_approval", Args(poid, NULL, approval, NULL), "ValueError")
          ELSE IF approval \notin Approvals
          THEN Fail(p, "po_approval", Args(poid, NULL, approval, NULL), "AssertionError")
          ELSE Execute(p, "po_approval", Args(poid, NULL, approval, NULL), ok,
                       UpdateOrder(poid, [approval |-> approval]),
                       [ i \in DOMAIN items |->
                           IF items[i].poid = poid
                              THEN Updated(items[i], [approval |-> approval])
                              ELSE items[i] ])

\* update_po_approval, lines 193-202
update_po_approval(p, poid, approval, ok) ==
    /\ CanStart(p)
    /\ IF ~IntOk(poid)
          THEN Fail(p, "po_approval", Args(poid, NULL, approval, NULL), "ValueError")
          ELSE IF approval \notin Approvals
          THEN Fail(p, "po_approval", Args(poid, NULL, approval, NULL), "AssertionError")
          ELSE Execute(p, "po_approval", Args(poid, NULL, approval, NULL), ok,
                       UpdateOrder(poid, [approval |-> approval]),
                       items)

\* update_poitem_approval, lines 204-214
update_poitem_approval(p, poid, item_id, approval, ok) ==
    /\ CanStart(p)
    /\ IF ~IntOk(poid) \/ ~IntOk(item_id)
          THEN Fail(p, "item_approval", Args(poid, item_id, approval, NULL), "ValueError")
          ELSE IF approval \notin Approvals
          THEN Fail(p, "item_approval", Args(poid, item_id, approval, NULL), "AssertionError")
          ELSE Execute(p, "item_approval", Args(poid, item_id, approval, NULL), ok,
                       orders,
                       UpdateItems(poid, item_id,
                                   [approval |-> approval]))

----------------------------------------------------------------------------
(* What happens outside the handler *)

\* time passes
Tick ==
    /\ clock < MaxClock
    /\ clock' = clock + 1
    /\ UNCHANGED <<orders, items, nextPoid, tx, pc, loc, ret, session>>

\* the supplier answers an order: a proposed delivery date, and a proposed
\* quantity and price for one of its item rows (the columns lines 241-254 read)
SupplierProposes(id, i, date, qty, price) ==
    /\ id \in DOMAIN orders
    /\ i \in DOMAIN items
    /\ items[i].poid = id
    /\ orders' = [orders EXCEPT ![id].supproposeddeliver = date]
    /\ items' = [items EXCEPT ![i].supproposedquantity = qty,
                              ![i].supproposedprice = price]
    /\ UNCHANGED <<nextPoid, tx, pc, loc, ret, clock, session>>

----------------------------------------------------------------------------
(* Specifications *)

\* an item dict as the pages build it
Item(item_id, quantity, estimated_price, item_approval) ==
    [ item_id |-> item_id, quantity |-> quantity,
      estimated_price |-> estimated_price, item_approval |-> item_approval ]

\* Lifecycle: one buyer session creates orders, accepts, modifies and
\* declines them and marks them received; no store operation fails
Next ==
    \/ /\ nextPoid <= MaxPoid
       /\ \E its \in {<<>>, <<Item(1, 1, 1, ABSENT)>>} :
             create_manual_po(1, 1, 1, its, "buyer", "pending")
    \/ /\ nextPoid <= MaxPoid
       /\ \E id \in 1..MaxPoid : accept_proposed_po(1, id, TRUE)
    \/ /\ nextPoid <= MaxPoid
       /\ \E id \in 1..MaxPoid :
             modify_proposed_po(1, id, 2, <<Item(2, 1, 1, ABSENT)>>, "editor", TRUE)
    \/ \E id \in 1..MaxPoid : decline_proposed_po(1, id, TRUE)
    \/ \E id \in 1..MaxPoid : update_po_status_to_received(1, id, TRUE)
    \/ create_insert_order(1, TRUE)
    \/ create_build_rows(1)
    \/ create_insert_items(1, TRUE)
    \/ create_commit(1, TRUE)
    \/ accept_read_items(1, TRUE)
    \/ accept_set_status(1, TRUE)
    \/ modify_set_status(1, TRUE)
    \/ Tick

Spec == Init /\ [][Next]_vars

\* Approval: one buyer session creates orders whose approval arguments are
\* in or out of the fixed set, accepts them and sets approvals; the store
\* operation behind an approval update may fail
NextApproval ==
    \/ /\ nextPoid <= MaxPoid
       /\ \E a \in {"pending", "maybe"} :
             create_manual_po(1, 1, 1,
                              <<Item(1, 1, 1, IF a = "pending" THEN ABSENT ELSE a)>>,
                              "buyer", a)
    \/ /\ nextPoid <= MaxPoid
       /\ \E id \in 1..MaxPoid : accept_proposed_po(1, id, TRUE)
    \/ \E id \in 1..MaxPoid \cup {BAD}, v \in {"approved", "maybe"}, ok \in BOOLEAN :
          update_po_approval(1, id, v, ok)
    \/ \E id \in 1..MaxPoid \cup {BAD}, v \in {"approved", "maybe"}, ok \in BOOLEAN :
          update_poitem_approval(1, id, 1, v, ok)
    \/ create_insert_order(1, TRUE)
    \/ create_build_rows(1)
    \/ create_insert_items(1, TRUE)
    \/ create_commit(1, TRUE)
    \/ accept_read_items(1, TRUE)
    \/ accept_set_status(1, TRUE)

SpecApproval == Init /\ [][NextApproval]_vars

\* Resolution: one buyer session creates orders with zero and non-zero
\* quantities, with and without a price; the supplier answers with or
\* without a quantity and a price; the buyer accepts
NextResolve ==
    \/ /\ nextPoid <= MaxPoid
       /\ \E its \in { <<Item(1, 0, OMIT, ABSENT)>>, <<Item(1, 2, 1, ABSENT)>> } :
             create_manual_po(1, 1, 1, its, "buyer", "pending")
    \/ /\ nextPoid <= MaxPoid
       /\ \E id \in 1..MaxPoid : accept_proposed_po(1, id, TRUE)
    \/ \E id \in 1..MaxPoid, i \in 1..Len(items), q \in {NULL, 3}, pr \in {NULL, 0} :
          SupplierProposes(id, i, 2, q, pr)
    \/ create_insert_order(1, TRUE)
    \/ create_build_rows(1)
    \/ create_insert_items(1, TRUE)
    \/ create_commit(1, TRUE)
    \/ accept_read_items(1, TRUE)
    \/ accept_set_status(1, TRUE)

SpecResolve == Init /\ [][NextResolve]_vars

\* the poid values that calls in progress have still to draw
InFlight == Cardinality({q \in Procs : pc[q] \in {"acc_items", "cr_insert"}})

\* Concurrency: two sessions create and accept orders, their store
\* operations interleaved; no store operation fails
NextConc ==
    \/ /\ nextPoid + InFlight <= MaxConcPoid
       /\ \E p \in Procs :
             create_manual_po(p, 1, 1, <<Item(1, 1, 1, ABSENT)>>, "buyer", "pending")
    \/ /\ nextPoid + InFlight <= MaxConcPoid
       /\ \E p \in Procs, id \in 1..MaxConcPoid : accept_proposed_po(p, id, TRUE)
    \/ \E p \in Procs : create_insert_order(p, TRUE)
    \/ \E p \in Procs : create_build_rows(p)
    \/ \E p \in Procs : create_insert_items(p, TRUE)
    \/ \E p \in Procs : create_commit(p, TRUE)
    \/ \E p \in Procs : accept_read_items(p, TRUE)
    \/ \E p \in Procs : accept_set_status(p, TRUE)

SpecConc == Init /\ [][NextConc]_vars

\* Failures: two sessions create orders, one of whose item lists has a
\* quantity int() cannot convert; every store operation may fail
NextFaults ==
    \/ /\ nextPoid + InFlight <= MaxPoid
       /\ \E p \in Procs,
             its \in { <<Item(1, 1, 1, ABSENT)>>,
                       <<Item(1, 1, OMIT, ABSENT), Item(2, BAD, 1, ABSENT)>> } :
             create_manual_po(p, 1, 1, its, "buyer", "pending")
    \/ \E p \in Procs, ok \in BOOLEAN : create_insert_order(p, ok)
    \/ \E p \in Procs : create_build_rows(p)
    \/ \E p \in Procs, ok \in BOOLEAN : create_insert_items(p, ok)
    \/ \E p \in Procs, ok \in BOOLEAN : create_commit(p, ok)

SpecFaults == Init /\ [][NextFaults]_vars

\* the item lists of the creation scenario: one and two items, with and
\* without a price, and an item id or a quantity int() cannot convert
CreateInputs ==
    { <<Item(1, 2, OMIT, ABSENT)>>,
      <<Item(2, 1, 3, ABSENT), Item(1, 0, OMIT, "approved")>>,
      <<Item(1, 1, 1, ABSENT), Item(BAD, 1, 1, ABSENT)>>,
      <<Item(1, BAD, 1, ABSENT)>> }

\* Creation: one session creates orders for either supplier, with and
\* without a delivery date, from well-formed and malformed arguments; every
\* store operation may fail
NextCreate ==
    \/ /\ nextPoid <= MaxPoid
       /\ \E s \in {1, 2, BAD}, d \in {3, NULL}, its \in CreateInputs :
             create_manual_po(1, s, d, its, "buyer", "pending")
    \/ \E ok \in BOOLEAN : create_insert_order(1, ok)
    \/ create_build_rows(1)
    \/ \E ok \in BOOLEAN : create_insert_items(1, ok)
    \/ \E ok \in BOOLEAN : create_commit(1, ok)

SpecCreate == Init /\ [][NextCreate]_vars

\* the arguments of the modify calls of the cloning scenario: the date, the
\* replacement items (quantity 0, no price) and the user
NewDeliveryDate == 3

NewItems == <<Item(2, 0, OMIT, ABSENT)>>

UserEmail == "editor"

\* Cloning: one buyer session creates orders for either supplier, pending
\* or approved; the supplier answers with a date and a quantity; the buyer
\* accepts and modifies; no store operation fails
NextClone ==
    \/ /\ nextPoid <= MaxPoid
       /\ \E s \in {1, 2}, a \in {"pending", "approved"} :
             create_manual_po(1, s, 1, <<Item(1, 2, 1, ABSENT)>>, "buyer", a)
    \/ /\ nextPoid <= MaxPoid
       /\ \E id \in 1..MaxPoid : accept_proposed_po(1, id, TRUE)
    \/ /\ nextPoid <= MaxPoid
       /\ \E id \in 1..MaxPoid :
             modify_proposed_po(1, id, NewDeliveryDate, NewItems, UserEmail, TRUE)
    \/ \E id \in 1..MaxPoid, i \in 1..Len(items) : SupplierProposes(id, i, 2, 3, NULL)
    \/ create_insert_order(1, TRUE)
    \/ create_build_rows(1)
    \/ create_insert_items(1, TRUE)
    \/ create_commit(1, TRUE)
    \/ accept_read_items(1, TRUE)
    \/ accept_set_status(1, TRUE)
    \/ modify_set_status(1, TRUE)

SpecClone == Init /\ [][NextClone]_vars

\* Updates: one session creates orders and issues the status and approval
\* updates by order ids and item ids that match a row or none; the store
\* operation behind an update may fail
NextUpdates ==
    \/ /\ nextPoid <= MaxPoid
       /\ create_manual_po(1, 1, 1, <<Item(1, 1, 1, ABSENT)>>, "buyer", "pending")
    \/ \E id \in 1..MaxPoid, ok \in BOOLEAN : decline_proposed_po(1, id, ok)
    \/ \E id \in 1..MaxPoid, ok \in BOOLEAN : update_po_status_to_received(1, id, ok)
    \/ \E id \in 1..MaxPoid, ok \in BOOLEAN : update_po_approval(1, id, "approved", ok)
    \/ \E id \in 1..MaxPoid, it \in ItemTable, ok \in BOOLEAN :
          update_poitem_approval(1, id, it, "approved", ok)
    \/ create_insert_order(1, TRUE)
    \/ create_build_rows(1)
    \/ create_insert_items(1, TRUE)
    \/ create_commit(1, TRUE)

SpecUpdates == Init /\ [][NextUpdates]_vars

\* Reception: one session creates orders of two items, with two item ids
\* or with the same item id twice, and records received quantities below
\* zero, zero and above the ordered quantity; no store operation fails
NextReceive ==
    \/ /\ nextPoid <= MaxPoid
       /\ \E its \in { <<Item(1, 1, 1, ABSENT), Item(2, 1, 1, ABSENT)>>,
                        <<Item(1, 1, 1, ABSENT), Item(1, 2, 1, ABSENT)>> } :
             create_manual_po(1, 1, 1, its, "buyer", "pending")
    \/ \E id \in 1..MaxPoid, it \in ItemTable, q \in {-1, 0, 3} :
          update_received_quantity(1, id, it, q, TRUE)
    \/ create_insert_order(1, TRUE)
    \/ create_build_rows(1)
    \/ create_insert_items(1, TRUE)
    \/ create_commit(1, TRUE)

SpecReceive == Init /\ [][NextReceive]_vars

\* Order approval: one session creates orders and sets their approval to
\* each value of the fixed set, again and again; no store operation fails
NextOrderApproval ==
    \/ /\ nextPoid <= MaxPoid
       /\ create_manual_po(1, 1, 1, <<Item(1, 1, 1, ABSENT)>>, "buyer", "pending")
    \/ \E id \in 1..MaxPoid, v \in Approvals : update_po_approval(1, id, v, TRUE)
    \/ create_insert_order(1, TRUE)
    \/ create_build_rows(1)
    \/ create_insert_items(1, TRUE)
    \/ create_commit(1, TRUE)

SpecOrderApproval == Init /\ [][NextOrderApproval]_vars

\* Approving: one session creates orders of two items, approves orders and
\* their items, and declines the first order, marks it received and records
\* a received quantity of its second item; no store operation fails
NextApprove ==
    \/ /\ nextPoid <= MaxPoid
       /\ create_manual_po(1, 1, 1, <<Item(1, 1, 1, ABSENT), Item(2, 1, 1, ABSENT)>>,
                           "buyer", "pending")
    \/ \E id \in 1..MaxPoid : update_po_approval(1, id, "approved", TRUE)
    \/ \E id \in 1..MaxPoid, it \in ItemTable :
          update_poitem_approval(1, id, it, "approved", TRUE)
    \/ decline_proposed_po(1, 1, TRUE)
    \/ update_po_status_to_received(1, 1, TRUE)
    \/ update_received_quantity(1, 1, 2, 1, TRUE)
    \/ create_insert_order(1, TRUE)
    \/ create_build_rows(1)
    \/ create_insert_items(1, TRUE)
    \/ create_commit(1, TRUE)

SpecApprove == Init /\ [][NextApprove]_vars

\* Amending under failure: one session creates orders, accepts and modifies
\* them; every store operation of every call may fail
NextAmend ==
    \/ /\ nextPoid <= MaxPoid
       /\ create_manual_po(1, 1, 1, <<Item(1, 1, 1, ABSENT)>>, "buyer", "pending")
    \/ /\ nextPoid <= MaxPoid
       /\ \E id \in 1..MaxPoid, ok \in BOOLEAN : accept_proposed_po(1, id, ok)
    \/ /\ nextPoid <= MaxPoid
       /\ \E id \in 1..MaxPoid, ok \in BOOLEAN :
             modify_proposed_po(1, id, NewDeliveryDate, NewItems, UserEmail, ok)
    \/ \E ok \in BOOLEAN : create_insert_order(1, ok)
    \/ create_build_rows(1)
    \/ \E ok \in BOOLEAN : create_insert_items(1, ok)
    \/ \E ok \in BOOLEAN : create_commit(1, ok)
    \/ \E ok \in BOOLEAN : accept_read_items(1, ok)
    \/ \E ok \in BOOLEAN : accept_set_status(1, ok)
    \/ \E ok \in BOOLEAN : modify_set_status(1, ok)

SpecAmend == Init /\ [][NextAmend]_vars

\* History: one buyer session creates, accepts, modifies and declines
\* orders, marks them received, records received quantities and sets item
\* approvals, by ids that match a row or none; no store operation fails
NextHistory ==
    \/ /\ nextPoid <= MaxPoid
       /\ create_manual_po(1, 1, 1, <<Item(1, 1, 1, ABSENT)>>, "buyer", "pending")
    \/ /\ nextPoid <= MaxPoid
       /\ \E id \in 1..MaxPoid : accept_proposed_po(1, id, TRUE)
    \/ /\ nextPoid <= MaxPoid
       /\ \E id \in 1..MaxPoid :
             modify_proposed_po(1, id, 2, <<Item(2, 1, 1, ABSENT)>>, "editor", TRUE)
    \/ \E id \in 1..MaxPoid : decline_proposed_po(1, id, TRUE)
    \/ \E id \in 1..MaxPoid : update_po_status_to_received(1, id, TRUE)
    \/ \E id \in 1..MaxPoid : update_received_quantity(1, id, 1, 1, TRUE)
    \/ \E id \in 1..MaxPoid : update_poitem_approval(1, id, 1, "approved", TRUE)
    \/ create_insert_order(1, TRUE)
    \/ create_build_rows(1)
    \/ create_insert_items(1, TRUE)
    \/ create_commit(1, TRUE)
    \/ accept_read_items(1, TRUE)
    \/ accept_set_status(1, TRUE)
    \/ modify_set_status(1, TRUE)

SpecHistory == Init /\ [][NextHistory]_vars

----------------------------------------------------------------------------
(* Properties *)

\* caller p's call of `op` ends in this step
Ends(p, op) == ret'[p] # ret[p] /\ ret'[p].op = op

Quiescent == \A p \in Procs : pc[p] = "idle"

Superseded == {"Accepted by AMAS", "Modified by AMAS"}

\* C1: when accept(s) returns normally, the id it returns is an order of the
\* store that is neither s nor an order that existed when the call began,
\* and the status of s is 'Accepted by AMAS' in the state the call leaves.
C1_AcceptReturnsNewId ==
    [][ \A p \in Procs :
          (Ends(p, "accept") /\ ret'[p].out = "ok") =>
              /\ ret'[p].id \in ret'[p].pre
              /\ ret'[p].poid \in DOMAIN orders'
              /\ ret'[p].poid # ret'[p].id
              /\ ret'[p].poid \notin ret'[p].pre
              /\ orders'[ret'[p].id].status = "Accepted by AMAS" ]_vars

\* an accept of an order that had been marked received has returned its clone
C1_Witness ==
    /\ ret[1].op = "accept" /\ ret[1].out = "ok"
    /\ ret[1].poid \in DOMAIN orders
    /\ orders[ret[1].poid].originalpoid = ret[1].id
    /\ orders[ret[1].id].status = "Accepted by AMAS"
    /\ orders[ret[1].id].actualdelivery # NULL

\* C2: accept(id) and modify(id, ...) with an id that matches no order row
\* return None in the step that began the call and change nothing: no order
\* row, no item row, no status, no poid drawn, no transaction left open.
C2_NotFoundNoEffect ==
    [][ \A p \in Procs :
          ( /\ Ends(p, "accept") \/ Ends(p, "modify")
            /\ ret'[p].id \notin DOMAIN orders ) =>
              /\ pc[p] = "idle"
              /\ ret'[p].out = "None"
              /\ UNCHANGED <<orders, items, nextPoid, tx>> ]_vars

\* a modify of a missing id returned None while the store holds an order
C2_Witness ==
    /\ ret[1].op = "modify" /\ ret[1].out = "None"
    /\ ret[1].id \notin DOMAIN orders
    /\ DOMAIN orders # {}

C9_ListingsPartition ==
    \A o \in DOMAIN orders :
        /\ (o \in get_archived_purchase_orders) = (orders[o].status \in ArchivedStatuses)
        /\ (o \in get_all_purchase_orders) = (orders[o].status \notin ArchivedStatuses)

C4_ConcurrentAcceptsSucceed ==
    [][ \A p \in Procs :
          (Ends(p, "accept") /\ ret'[p].id \in DOMAIN orders) =>
              /\ ret'[p].out = "ok"
              /\ ret'[p].poid \in DOMAIN orders'
              /\ orders'[ret'[p].poid].originalpoid = ret'[p].id
              /\ orders'[ret'[p].id].status = "Accepted by AMAS"
              /\ \A q \in Procs \ {p} : ret'[q].poid # ret'[p].poid ]_vars

\* two accepts of the same source have both returned, each began before the
\* other's clone was committed, and the two clones are distinct orders that
\* point to the source
C4_Witness ==
    /\ ret[1].op = "accept" /\ ret[1].out = "ok"
    /\ ret[2].op = "accept" /\ ret[2].out = "ok"
    /\ ret[1].id = ret[2].id
    /\ ret[1].poid # ret[2].poid
    /\ ret[1].poid \notin ret[2].pre
    /\ ret[2].poid \notin ret[1].pre
    /\ orders[ret[1].poid].originalpoid = ret[1].id
    /\ orders[ret[2].poid].originalpoid = ret[1].id
    /\ orders[ret[1].id].status = "Accepted by AMAS"

\* following original_id from order n never comes back to an order of `seen`
RECURSIVE NoRevisit(_, _)
NoRevisit(n, seen) ==
    IF n = NULL \/ n \notin DOMAIN orders
        THEN TRUE
        ELSE IF n \in seen
                THEN FALSE
                ELSE NoRevisit(orders[n].originalpoid, seen \cup {n})

\* C5 as claimed: no two distinct orders have the same original_id, and
\* following original_id from any order never revisits an order.
C5_LineageIsList ==
    /\ \A m, n \in DOMAIN orders :
          (m # n /\ orders[m].originalpoid # NULL) =>
              orders[m].originalpoid # orders[n].originalpoid
    /\ \A n \in DOMAIN orders : NoRevisit(n, {})

\* C7 as claimed: the approval of every order row and of every item row is
\* pending, approved or rejected.
C7_ApprovalsInFixedSet ==
    /\ \A o \in DOMAIN orders : orders[o].approval \in Approvals
    /\ \A i \in DOMAIN items : items[i].approval \in Approvals

\* C8: update_po_approval and update_poitem_approval given a value outside
\* {pending, approved, rejected} end in an exception raised before
\* execute_command (never the store's failure), and the store is unchanged.
C8_InvalidApprovalFailsFirst ==
    [][ \A p \in Procs :
          ( /\ Ends(p, "po_approval") \/ Ends(p, "item_approval")
            /\ ret'[p].val \notin Approvals ) =>
              /\ ret'[p].out \in {"AssertionError", "ValueError"}
              /\ UNCHANGED <<orders, items, nextPoid, tx>> ]_vars

\* update_po_approval(id, "maybe") on an order that had been approved raised
\* AssertionError, and the order is still approved
C8_Witness ==
    /\ ret[1].op = "po_approval" /\ ret[1].val = "maybe"
    /\ ret[1].out = "AssertionError"
    /\ ret[1].id \in DOMAIN orders
    /\ orders[ret[1].id].approval = "approved"

\* the resolution policy of the quantity as the specification states it
PolicyQuantity(row) ==
    IF row.supproposedquantity # NULL
        THEN row.supproposedquantity
        ELSE IF row.orderedquantity # NULL
                THEN row.orderedquantity
                ELSE 1

\* C10 as claimed: the clone that accept returns has one item row per item
\* row read from the source, whose ordered quantity is the supplier-proposed
\* quantity if present, otherwise the source's ordered quantity if present
\* (any integer >= 0), otherwise 1.
C10_CloneQuantityFollowsPolicy ==
    [][ \A p \in Procs :
          (Ends(p, "accept") /\ ret'[p].out = "ok") =>
              LET src == loc[p].items_info
                  new == ItemsIn(items', ret'[p].poid)
              IN  /\ Len(new) = Len(src)
                  /\ \A i \in DOMAIN src :
                        new[i].orderedquantity = PolicyQuantity(src[i]) ]_vars

\* the resolution policy of the price as the specification states it
PolicyPrice(row) ==
    IF row.supproposedprice # NULL
        THEN row.supproposedprice
        ELSE IF row.estimatedprice # NULL
                THEN row.estimatedprice
                ELSE 0

\* C11: the clone that accept returns has one item row per item row read
\* from the source, whose estimated price is the supplier-proposed price if
\* that is not null (0 included), otherwise the source's estimated price if
\* that is not null, otherwise 0.
C11_ClonePriceFollowsPolicy ==
    [][ \A p \in Procs :
          (Ends(p, "accept") /\ ret'[p].out = "ok") =>
              LET src == loc[p].items_info
                  new == ItemsIn(items', ret'[p].poid)
              IN  /\ Len(new) = Len(src)
                  /\ \A i \in DOMAIN src :
                        new[i].estimatedprice = PolicyPrice(src[i]) ]_vars

\* an accept has returned a clone whose item is priced 0 although the
\* source's item has the estimated price 1: the supplier's price 0 was taken
C11_Witness ==
    /\ ret[1].op = "accept" /\ ret[1].out = "ok"
    /\ \E i, j \in DOMAIN items :
          /\ items[i].poid = ret[1].id
          /\ items[i].estimatedprice = 1
          /\ items[i].supproposedprice = 0
          /\ items[j].poid = ret[1].poid
          /\ items[j].estimatedprice = 0

\* C12: a decline of an existing order that returns normally changes the
\* status of that order to 'Declined by AMAS' and nothing else: the same
\* order rows exist, every other field of the order and every other order
\* row are as before, the item rows are as before, and no poid is drawn.
C12_DeclineChangesOnlyStatus ==
    [][ \A p \in Procs :
          ( /\ Ends(p, "decline") /\ ret'[p].out = "ok"
            /\ ret'[p].id \in DOMAIN orders ) =>
              /\ orders' = [orders EXCEPT ![ret'[p].id].status = "Declined by AMAS"]
              /\ UNCHANGED <<items, nextPoid, tx>> ]_vars

\* a decline has returned on an order that was marked received before and
\* owns an item row, beside another order: the delivery timestamp is kept
C12_Witness ==
    /\ ret[1].op = "decline" /\ ret[1].out = "ok"
    /\ ret[1].id \in DOMAIN orders
    /\ orders[ret[1].id].status = "Declined by AMAS"
    /\ orders[ret[1].id].actualdelivery # NULL
    /\ ItemsOf(ret[1].id) # <<>>
    /\ Cardinality(DOMAIN orders) > 1

\* C13 as claimed: an order whose status is 'Declined by AMAS' keeps that
\* status in every later step, and no order that becomes visible is a clone
\* of it.
C13_DeclinedIsTerminal ==
    [][ \A o \in DOMAIN orders :
          orders[o].status = "Declined by AMAS" =>
              /\ orders'[o].status = "Declined by AMAS"
              /\ \A n \in DOMAIN orders' \ DOMAIN orders :
                    orders'[n].originalpoid # o ]_vars

\* C14: history is append-only.  In every step each order row stays; each
\* item row stays, at its place, with its owner and its item reference; and
\* an item row that appears belongs to an order that appears in the same
\* step, never to an order that existed before.
C14_HistoryIsAppendOnly ==
    [][ /\ DOMAIN orders \subseteq DOMAIN orders'
        /\ DOMAIN items \subseteq DOMAIN items'
        /\ \A i \in DOMAIN items :
              /\ items'[i].poid = items[i].poid
              /\ items'[i].itemid = items[i].itemid
        /\ \A i \in DOMAIN items' \ DOMAIN items :
              items'[i].poid \in DOMAIN orders' \ DOMAIN orders ]_vars

\* an order was modified and a received quantity was recorded on it: it
\* still owns the one item row of its creation, and the caller's item is
\* the one row of the clone
C14_Witness ==
    \E s, n \in DOMAIN orders :
        /\ orders[n].originalpoid = s
        /\ orders[s].status = "Modified by AMAS"
        /\ Len(ItemsOf(s)) = 1
        /\ ItemsOf(s)[1].itemid = 1
        /\ ItemsOf(s)[1].receivedquantity = 1
        /\ Len(ItemsOf(n)) = 1
        /\ ItemsOf(n)[1].itemid = 2

\* C15: round trip.  When create_manual_po returns normally, the order row
\* of the poid it returns has the supplier and the expected delivery the
\* call was given, and the item rows of that poid are, in order, one per
\* item given, with its item id, its quantity and its estimated price (NULL
\* where the item carries no price).
C15_CreateRoundTrip ==
    [][ \A p \in Procs :
          (Ends(p, "create") /\ ret'[p].out = "ok") =>
              LET given == loc[p]
                  po    == orders'[ret'[p].poid]
                  rows  == ItemsIn(items', ret'[p].poid)
              IN  /\ po.supplierid = given.supplier_id
                  /\ po.expecteddelivery = given.expected_delivery
                  /\ Len(rows) = Len(given.items)
                  /\ \A i \in DOMAIN given.items :
                        /\ rows[i].itemid = given.items[i].item_id
                        /\ rows[i].orderedquantity = given.items[i].quantity
                        /\ rows[i].estimatedprice =
                              (IF given.items[i].estimated_price = OMIT
                                  THEN NULL
                                  ELSE given.items[i].estimated_price) ]_vars

\* a create for supplier 2 with two items, the second without a price, has
\* returned the poid of an order that reads back with both rows
C15_Witness ==
    /\ ret[1].op = "create" /\ ret[1].out = "ok"
    /\ orders[ret[1].poid].supplierid = 2
    /\ orders[ret[1].poid].expecteddelivery = 3
    /\ Len(ItemsOf(ret[1].poid)) = 2
    /\ ItemsOf(ret[1].poid)[1].estimatedprice = 3
    /\ ItemsOf(ret[1].poid)[2].orderedquantity = 0
    /\ ItemsOf(ret[1].poid)[2].estimatedprice = NULL

\* C20 as claimed: when create_manual_po raises for an argument that does
\* not convert, its transaction holds no inserted order row, no poid was
\* drawn for it, and the committed tables are as they were.
C20_CoercionFailsBeforeWrite ==
    [][ \A p \in Procs :
          (Ends(p, "create") /\ ret'[p].out = "ValueError") =>
              /\ tx[p] = NoTx
              /\ loc[p].po_id = NULL
              /\ UNCHANGED <<orders, items>> ]_vars

\* C16: when accept(s) returns normally, its clone has the supplier, the
\* created-by and the approval of the row of s the call read, the
\* supplier-proposed delivery date of that row as its expected delivery
\* (none where none was proposed), original_id s, and one item row per item
\* row read from s, with the same item id.
C16_AcceptCloneFields ==
    [][ \A p \in Procs :
          (Ends(p, "accept") /\ ret'[p].out = "ok") =>
              LET s   == loc[p].po_info
                  n   == orders'[ret'[p].poid]
                  src == loc[p].items_info
                  new == ItemsIn(items', ret'[p].poid)
              IN  /\ n.supplierid = s.supplierid
                  /\ n.expecteddelivery = s.supproposeddeliver
                  /\ n.createdby = s.createdby
                  /\ n.originalpoid = ret'[p].id
                  /\ n.approval = s.approval
                  /\ Len(new) = Len(src)
                  /\ \A i \in DOMAIN src : new[i].itemid = src[i].itemid ]_vars

\* an accept has returned the clone of an approved order of supplier 2 that
\* the supplier gave the date 2: the clone is approved, of supplier 2, and
\* its expected delivery is 2, not the 1 of the source
C16_Witness ==
    /\ ret[1].op = "accept" /\ ret[1].out = "ok"
    /\ \E n \in DOMAIN orders :
          /\ orders[n].originalpoid = ret[1].id
          /\ orders[n].supplierid = 2
          /\ orders[n].approval = "approved"
          /\ orders[n].createdby = "buyer"
          /\ orders[n].expecteddelivery = 2
          /\ orders[ret[1].id].expecteddelivery = 1
          /\ orders[ret[1].id].supproposeddeliver = 2

\* C17: when modify(s, date, items, user) returns normally, the expected
\* delivery of its clone is the date given, the item rows of the clone are,
\* in order, the items given with their quantity and price as given (0
\* stays 0, no price stays null), whatever the item rows of s, and the
\* status of s is 'Modified by AMAS'.
C17_ModifyTakesCallerValues ==
    [][ \A p \in Procs :
          (Ends(p, "modify") /\ ret'[p].out = "ok") =>
              LET n    == orders'[ret'[p].poid]
                  rows == ItemsIn(items', ret'[p].poid)
              IN  /\ n.expecteddelivery = NewDeliveryDate
                  /\ Len(rows) = Len(NewItems)
                  /\ \A i \in DOMAIN NewItems :
                        /\ rows[i].itemid = NewItems[i].item_id
                        /\ rows[i].orderedquantity = NewItems[i].quantity
                        /\ rows[i].estimatedprice =
                              (IF NewItems[i].estimated_price = OMIT
                                  THEN NULL ELSE NewItems[i].estimated_price)
                  /\ orders'[ret'[p].id].status = "Modified by AMAS" ]_vars

\* a modify has returned on an order whose item the supplier answered with
\* the quantity 3: the clone holds the caller's item 2 with quantity 0 and
\* no price, and the source is 'Modified by AMAS'
C17_Witness ==
    /\ ret[1].op = "modify" /\ ret[1].out = "ok"
    /\ orders[ret[1].id].status = "Modified by AMAS"
    /\ orders[ret[1].poid].expecteddelivery = NewDeliveryDate
    /\ Len(ItemsOf(ret[1].id)) = 1
    /\ ItemsOf(ret[1].id)[1].supproposedquantity = 3
    /\ Len(ItemsOf(ret[1].poid)) = 1
    /\ ItemsOf(ret[1].poid)[1].itemid = 2
    /\ ItemsOf(ret[1].poid)[1].orderedquantity = 0
    /\ ItemsOf(ret[1].poid)[1].estimatedprice = NULL

\* C18 as claimed: when modify(s, ...) returns normally, its clone has the
\* supplier, the created-by and the approval of the row of s the call read,
\* and original_id s.
C18_ModifyCloneAsAccept ==
    [][ \A p \in Procs :
          (Ends(p, "modify") /\ ret'[p].out = "ok") =>
              LET s == loc[p].po_info
                  n == orders'[ret'[p].poid]
              IN  /\ n.supplierid = s.supplierid
                  /\ n.createdby = s.createdby
                  /\ n.originalpoid = ret'[p].id
                  /\ n.approval = s.approval ]_vars

\* C18 amended: when modify(s, ...) returns normally, its clone has the
\* supplier and the approval of the row of s the call read and original_id
\* s, as accept's clone has; its created-by is the user the caller names.
C18_ModifyCloneFields ==
    [][ \A p \in Procs :
          (Ends(p, "modify") /\ ret'[p].out = "ok") =>
              LET s == loc[p].po_info
                  n == orders'[ret'[p].poid]
              IN  /\ n.supplierid = s.supplierid
                  /\ n.createdby = UserEmail
                  /\ n.originalpoid = ret'[p].id
                  /\ n.approval = s.approval ]_vars

\* a modify has returned the clone of an approved order of supplier 2 that
\* the buyer created: the clone is approved, of supplier 2, created by the
\* editor
C18_Witness ==
    /\ ret[1].op = "modify" /\ ret[1].out = "ok"
    /\ orders[ret[1].id].createdby = "buyer"
    /\ orders[ret[1].id].approval = "approved"
    /\ orders[ret[1].poid].originalpoid = ret[1].id
    /\ orders[ret[1].poid].supplierid = 2
    /\ orders[ret[1].poid].approval = "approved"
    /\ orders[ret[1].poid].createdby = "editor"

\* C19 as claimed: a mark-received, a decline or an order-approval update
\* whose order id matches no order row, and an item-approval update whose
\* order id and item id match no item row, do not return normally.
C19_MissingRowSignalsFailure ==
    [][ \A p \in Procs :
          /\ ( /\ Ends(p, "received") \/ Ends(p, "decline") \/ Ends(p, "po_approval")
               /\ ret'[p].id \notin DOMAIN orders ) =>
                 ret'[p].out # "ok"
          /\ ( /\ Ends(p, "item_approval")
               /\ \A i \in DOMAIN items :
                     ~(items[i].poid = ret'[p].id /\ items[i].itemid = ret'[p].item) ) =>
                 ret'[p].out # "ok" ]_vars

\* C21 as claimed: the received quantity of every item row is at least 0
\* (0 at creation; update_received_quantity writes any quantity from 0 up
\* and rejects a negative one without writing).
C21_ReceivedQuantityNonNegative ==
    \A i \in DOMAIN items : items[i].receivedquantity >= 0

\* C26 as claimed: an update_received_quantity(poid, item_id, q) that
\* returns normally and names an item row of an order sets the received
\* quantity of one item row to q and leaves every other item row and every
\* order row as it was.
C26_ReceivedQuantityIsPointUpdate ==
    [][ \A p \in Procs :
          ( /\ Ends(p, "quantity") /\ ret'[p].out = "ok"
            /\ \E i \in DOMAIN items :
                  items[i].poid = ret'[p].id /\ items[i].itemid = ret'[p].item ) =>
              /\ orders' = orders
              /\ \E i \in DOMAIN items :
                    /\ items[i].poid = ret'[p].id
                    /\ items[i].itemid = ret'[p].item
                    /\ items' = [items EXCEPT ![i].receivedquantity = ret'[p].num] ]_vars

\* C22: a mark-received of an existing order that returns normally, whatever
\* the status of the order, sets its status to 'Received' and its actual
\* delivery to the current time and changes nothing else: no other field of
\* the order, no other order row, no item row, and no poid is drawn.
C22_ReceivedChangesStatusAndTime ==
    [][ \A p \in Procs :
          ( /\ Ends(p, "received") /\ ret'[p].out = "ok"
            /\ ret'[p].id \in DOMAIN orders ) =>
              /\ orders' = [orders EXCEPT ![ret'[p].id].status = "Received",
                                          ![ret'[p].id].actualdelivery = clock]
              /\ UNCHANGED <<items, nextPoid, tx>> ]_vars

\* a mark-received has returned at time 1 on an order that had been
\* accepted (its clone exists): the order is 'Received' with the actual
\* delivery 1
C22_Witness ==
    /\ ret[1].op = "received" /\ ret[1].out = "ok"
    /\ ret[1].id \in DOMAIN orders
    /\ orders[ret[1].id].status = "Received"
    /\ orders[ret[1].id].actualdelivery = 1
    /\ clock = 1
    /\ \E n \in DOMAIN orders : orders[n].originalpoid = ret[1].id

\* C23: update_po_approval(id, v) with v pending, approved or rejected on an
\* existing order returns normally and leaves the store as it was but for
\* the approval of that order, which is v; and when the call before it was
\* the same call, it leaves the store as that call left it.
C23_OrderApprovalIdempotent ==
    [][ \A p \in Procs :
          ( /\ Ends(p, "po_approval")
            /\ ret'[p].val \in Approvals
            /\ ret'[p].id \in DOMAIN orders ) =>
              /\ ret'[p].out = "ok"
              /\ orders' = [orders EXCEPT ![ret'[p].id].approval = ret'[p].val]
              /\ items' = items
              /\ ( /\ ret[p].op = "po_approval" /\ ret[p].out = "ok"
                   /\ ret[p].id = ret'[p].id /\ ret[p].val = ret'[p].val ) =>
                     orders' = orders ]_vars

\* update_po_approval(id, "rejected") has returned on an order beside
\* another one that is approved: the order is rejected
C23_Witness ==
    /\ ret[1].op = "po_approval" /\ ret[1].out = "ok"
    /\ ret[1].val = "rejected"
    /\ ret[1].id \in DOMAIN orders
    /\ orders[ret[1].id].approval = "rejected"
    /\ \E o \in DOMAIN orders : orders[o].approval = "approved"

\* C24: order and item approvals are independent.  update_po_approval
\* changes no item row; update_poitem_approval changes no order row and no
\* item row of another item id or another order; mark-received, decline and
\* update_received_quantity change the approval of no order row and of no
\* item row.
C24_ApprovalsIndependent ==
    [][ \A p \in Procs :
          /\ Ends(p, "po_approval") => items' = items
          /\ Ends(p, "item_approval") =>
                /\ orders' = orders
                /\ DOMAIN items' = DOMAIN items
                /\ \A i \in DOMAIN items :
                      (items[i].poid # ret'[p].id \/ items[i].itemid # ret'[p].item)
                          => items'[i] = items[i]
          /\ (Ends(p, "received") \/ Ends(p, "decline") \/ Ends(p, "quantity")) =>
                /\ DOMAIN orders' = DOMAIN orders
                /\ DOMAIN items' = DOMAIN items
                /\ \A o \in DOMAIN orders : orders'[o].approval = orders[o].approval
                /\ \A i \in DOMAIN items : items'[i].approval = items[i].approval ]_vars

\* an order is approved while both its item rows are pending, and another
\* order, declined since, is pending while its first item row is approved
C24_Witness ==
    \E a, b \in DOMAIN orders :
        /\ orders[a].approval = "approved"
        /\ \A i \in DOMAIN items : items[i].poid = a => items[i].approval = "pending"
        /\ orders[b].approval = "pending"
        /\ orders[b].status = "Declined by AMAS"
        /\ \E i, j \in DOMAIN items :
              /\ items[i].poid = b /\ items[i].approval = "approved"
              /\ items[j].poid = b /\ items[j].approval = "pending"

\* the orders that existed when the call that caller p is ending began
CallPre(p) == IF pc[p] = "idle" THEN DOMAIN orders ELSE loc[p].pre

\* the status the source had when the call that caller p is ending began
CallStatus(p, s) ==
    IF pc[p] = "idle" THEN orders[s].status ELSE loc[p].po_info.status

\* C25 as claimed: when an accept(s) or a modify(s, ...) on an existing
\* order ends, by a return or by an exception of any of its store
\* operations, either an order created by the call has original_id s and the
\* status of s is the superseded value of the call, or the call created no
\* order and the status of s is what it was when the call began.
C25_AmendAllOrNothing ==
    [][ \A p \in Procs :
          ( /\ Ends(p, "accept") \/ Ends(p, "modify")
            /\ ret'[p].id \in DOMAIN orders ) =>
              LET s      == ret'[p].id
                  clones == { n \in DOMAIN orders' \ CallPre(p) :
                                orders'[n].originalpoid = s }
              IN  \/ /\ clones # {}
                     /\ orders'[s].status =
                           (IF ret'[p].op = "accept"
                               THEN "Accepted by AMAS" ELSE "Modified by AMAS")
                  \/ /\ DOMAIN orders' = CallPre(p)
                     /\ orders'[s].status = CallStatus(p, s) ]_vars


----------------------------------------------------------------------------
(* The cart pages: src/pages/1_Manual_PO.py, 1_Fast_Check.py, 2_Fast_Check.py *)

Pages == {"1_Manual_PO", "1_Fast_Check", "2_Fast_Check"}

SuccessMsg == "All items confirmed and purchase orders created!"

FailureMsg == "Failed to create any purchase order."

\* mapping_df[mapping_df["itemid"] == item_id]["supplierid"].tolist(): the
\* suppliers of each catalogue item
suppliers_for_item(item_id) == IF item_id = 1 THEN <<1, 2>> ELSE <<2>>

\* 1_Fast_Check.py 188-197: the newest positive price recorded for the item
get_latest_estimated_price(item_id) ==
    LET priced == SelectSeq(items, LAMBDA r : /\ r.itemid = item_id
                                              /\ r.estimatedprice # NULL
                                              /\ r.estimatedprice > 0)
    IN  IF priced = <<>> THEN 0 ELSE priced[Len(priced)].estimatedprice

\* the widget the user used in this page run; idx counts from 0 as
\* enumerate(po_items) does
Event(page, widget, idx) ==
    [page |-> page, widget |-> widget, idx |-> idx, seq |-> 1 - session.event.seq]

\* the top of a page run: 1_Fast_Check.py 249-265 (clear the cart after a
\* Confirm, show the hard-coded message and stop; else show and clear
\* confirm_feedback), 2_Fast_Check.py 73-75 (show and clear confirm_feedback),
\* 1_Manual_PO.py 145-147 (po_feedback, no key of the Fast Check pages)
PageTop(pg, s) ==
    IF pg = "1_Fast_Check"
       THEN IF s.clear_after_confirm
               THEN [s EXCEPT !.po_items = <<>>, !.clear_after_confirm = FALSE,
                              !.shown = SuccessMsg, !.page = ""]
               ELSE [s EXCEPT !.shown = s.confirm_feedback,
                              !.confirm_feedback = "", !.page = pg]
       ELSE IF pg = "2_Fast_Check"
               THEN [s EXCEPT !.shown = s.confirm_feedback,
                              !.confirm_feedback = "", !.page = pg]
               ELSE [s EXCEPT !.shown = "", !.page = pg]

\* the user opens or reloads a page: one run of its script, no widget used
open_page(pg) ==
    /\ ~session.confirming
    /\ session' = [PageTop(pg, session) EXCEPT !.event = Event(pg, "open", 0)]
    /\ UNCHANGED <<orders, items, nextPoid, tx, pc, loc, ret, clock>>

\* add_item_by_barcode of the three pages (1_Manual_PO.py 151-190,
\* 1_Fast_Check.py 275-318, 2_Fast_Check.py 79-119): the entry of the item
\* with its first supplier, unless the cart has it; st.rerun() after an append
add_item_by_barcode(pg, item_id) ==
    /\ session.page = pg
    /\ ~session.confirming
    /\ LET s1 == PageTop(pg, session)
           supplierid == suppliers_for_item(item_id)[1]
           already_added == \E i \in DOMAIN s1.po_items :
                               /\ s1.po_items[i].item_id = item_id
                               /\ s1.po_items[i].supplierid = supplierid
           est_price == IF pg = "1_Manual_PO"
                           THEN 0 ELSE get_latest_estimated_price(item_id)
           s2 == [s1 EXCEPT !.po_items =
                     Append(@, [ item_id |-> item_id, quantity |-> 1,
                                 estimated_price |-> est_price,
                                 supplierid |-> supplierid ])]
       IN  session' = [ (IF already_added THEN s1 ELSE PageTop(pg, s2))
                          EXCEPT !.event = Event(pg, "add", item_id) ]
    /\ UNCHANGED <<orders, items, nextPoid, tx, pc, loc, ret, clock>>

\* `for idx in reversed(to_remove): po_items.pop(idx)`, idx counted from 0
PopAll(po_items, to_remove) ==
    SelectSeq([i \in DOMAIN po_items |-> [i |-> i, po |-> po_items[i]]],
              LAMBDA e : \A k \in DOMAIN to_remove : to_remove[k] # e.i - 1)

\* the end of the cart loop: `if to_remove:` pop the entries and st.rerun()
AfterCartLoop(pg, s, to_remove) ==
    IF to_remove = <<>>
       THEN s
       ELSE LET left == PopAll(s.po_items, to_remove)
            IN  PageTop(pg, [s EXCEPT !.po_items =
                                [i \in DOMAIN left |-> left[i].po]])

\* 1_Manual_PO.py 222-281, the click of "Remove" in row idx: the loop binds
\* the click to `remove` (line 260) and appends nothing to to_remove
manual_po_remove(idx) ==
    /\ session.page = "1_Manual_PO"
    /\ ~session.confirming
    /\ idx + 1 \in DOMAIN session.po_items
    /\ LET to_remove == <<>>
       IN  session' = [ AfterCartLoop("1_Manual_PO",
                                      PageTop("1_Manual_PO", session), to_remove)
                          EXCEPT !.event = Event("1_Manual_PO", "rm", idx) ]
    /\ UNCHANGED <<orders, items, nextPoid, tx, pc, loc, ret, clock>>

\* 2_Fast_Check.py 151-196, the click of "Remove" in row idx: as on the
\* Manual PO page, `remove` (line 189) is never read
fast_check_2_remove(idx) ==
    /\ session.page = "2_Fast_Check"
    /\ ~session.confirming
    /\ idx + 1 \in DOMAIN session.po_items
    /\ LET to_remove == <<>>
       IN  session' = [ AfterCartLoop("2_Fast_Check",
                                      PageTop("2_Fast_Check", session), to_remove)
                          EXCEPT !.event = Event("2_Fast_Check", "rm", idx) ]
    /\ UNCHANGED <<orders, items, nextPoid, tx, pc, loc, ret, clock>>

\* 1_Fast_Check.py 350-393, the click of the remove button of row idx:
\* `if st.button(..., key=f"rm_{idx}"): to_remove.append(idx)`
fast_check_1_remove(idx) ==
    /\ session.page = "1_Fast_Check"
    /\ ~session.confirming
    /\ idx + 1 \in DOMAIN session.po_items
    /\ LET to_remove == <<idx>>
       IN  session' = [ AfterCartLoop("1_Fast_Check",
                                      PageTop("1_Fast_Check", session), to_remove)
                          EXCEPT !.event = Event("1_Fast_Check", "rm", idx) ]
    /\ UNCHANGED <<orders, items, nextPoid, tx, pc, loc, ret, clock>>

\* 1_Fast_Check.py 401-416: po_by_supplier, the cart grouped by supplier in
\* the order the suppliers first appear (a dict keeps insertion order)
GroupBySupplier(po_items) ==
    LET firsts == SelectSeq([i \in DOMAIN po_items |-> i],
                            LAMBDA i : \A j \in 1..(i - 1) :
                                po_items[j].supplierid # po_items[i].supplierid)
        of(supid) == SelectSeq(po_items, LAMBDA po : po.supplierid = supid)
    IN  [k \in DOMAIN firsts |->
           LET supid == po_items[firsts[k]].supplierid
           IN  [ supid |-> supid,
                 items |-> [i \in DOMAIN of(supid) |->
                              Item(of(supid)[i].item_id, of(supid)[i].quantity,
                                   of(supid)[i].estimated_price, ABSENT)] ]]

\* 1_Fast_Check.py 396-421, the click of Confirm: an empty cart shows an
\* error; else the handler groups the cart and enters its loop
fast_check_1_confirm ==
    /\ session.page = "1_Fast_Check"
    /\ ~session.confirming
    /\ pc[1] = "idle"
    /\ nextPoid + Len(GroupBySupplier(session.po_items)) <= MaxPoid + 1
    /\ LET s1 == PageTop("1_Fast_Check", session)
       IN  session' =
             IF s1.po_items = <<>>
                THEN [s1 EXCEPT !.event = Event("1_Fast_Check", "confirm", 0)]
                ELSE [s1 EXCEPT !.event = Event("1_Fast_Check", "confirm", 0),
                                !.confirming = TRUE,
                                !.po_by_supplier = GroupBySupplier(s1.po_items),
                                !.any_success = FALSE,
                                !.outcomes = <<>>,
                                !.seen = ret[1].seq]
    /\ UNCHANGED <<orders, items, nextPoid, tx, pc, loc, ret, clock>>

\* 1_Fast_Check.py 422-426: the loop calls create_manual_po for the next
\* supplier with the time of the click and the default user
fast_check_1_confirm_call ==
    /\ session.confirming
    /\ session.po_by_supplier # <<>>
    /\ ret[1].seq = session.seen
    /\ create_manual_po(1, Head(session.po_by_supplier).supid, clock,
                        Head(session.po_by_supplier).items, "ManualUser",
                        "pending")

\* 1_Fast_Check.py 427-429: the call returned (`any_success = True`) or
\* raised (`except Exception: any_success = False`)
fast_check_1_confirm_result ==
    /\ session.confirming
    /\ pc[1] = "idle"
    /\ ret[1].seq # session.seen
    /\ session' = [session EXCEPT !.any_success = (ret[1].out = "ok"),
                                  !.outcomes = Append(@, ret[1].out),
                                  !.po_by_supplier = Tail(@),
                                  !.seen = ret[1].seq]
    /\ UNCHANGED <<orders, items, nextPoid, tx, pc, loc, ret, clock>>

\* 1_Fast_Check.py 431-436: after the loop the handler records the feedback,
\* sets clear_after_confirm and calls st.rerun(), which runs the page top
fast_check_1_confirm_done ==
    /\ session.confirming
    /\ session.po_by_supplier = <<>>
    /\ ret[1].seq = session.seen
    /\ session' = PageTop("1_Fast_Check",
                     [session EXCEPT !.confirm_feedback =
                                        IF session.any_success
                                           THEN SuccessMsg ELSE FailureMsg,
                                     !.clear_after_confirm = TRUE,
                                     !.confirming = FALSE])
    /\ UNCHANGED <<orders, items, nextPoid, tx, pc, loc, ret, clock>>

\* The cart pages: one browser session opens the pages, adds items, presses
\* the remove buttons and confirms on 1_Fast_Check; every store operation of
\* a create_manual_po call may fail
NextPages ==
    \/ \E pg \in Pages : open_page(pg)
    \/ \E pg \in Pages, item_id \in ItemTable : add_item_by_barcode(pg, item_id)
    \/ \E idx \in 0..1 : manual_po_remove(idx)
    \/ \E idx \in 0..1 : fast_check_2_remove(idx)
    \/ \E idx \in 0..1 : fast_check_1_remove(idx)
    \/ fast_check_1_confirm
    \/ fast_check_1_confirm_call
    \/ \E ok \in BOOLEAN : create_insert_order(1, ok)
    \/ create_build_rows(1)
    \/ \E ok \in BOOLEAN : create_insert_items(1, ok)
    \/ \E ok \in BOOLEAN : create_commit(1, ok)
    \/ fast_check_1_confirm_result
    \/ fast_check_1_confirm_done

SpecPages == Init /\ [][NextPages]_vars

\* po_items without the entry at position idx (counted from 0), the others
\* in their order
WithoutEntry(po_items, idx) ==
    [i \in 1..(Len(po_items) - 1) |->
        IF i <= idx THEN po_items[i] ELSE po_items[i + 1]]

\* C27: on each cart page, pressing the remove button of cart entry idx
\* removes exactly that entry and leaves the other entries and their order
\* unchanged.
C27_RemoveRemovesThatEntry ==
    [][ ( /\ session'.event # session.event
          /\ session'.event.widget = "rm" ) =>
            session'.po_items = WithoutEntry(session.po_items, session'.event.idx)
      ]_vars

\* C28: after a Confirm on 1_Fast_Check over a non-empty cart, the success
\* message is shown only if every per-supplier create_manual_po call
\* succeeded, and the failure feedback is recorded only if none succeeded.
C28_FeedbackMatchesOutcomes ==
    ( ~session.confirming /\ session.outcomes # <<>> ) =>
        /\ session.shown = SuccessMsg =>
              \A i \in DOMAIN session.outcomes : session.outcomes[i] = "ok"
        /\ ( session.confirm_feedback = FailureMsg \/ session.shown = FailureMsg ) =>
              \A i \in DOMAIN session.outcomes : session.outcomes[i] # "ok"

====
